---- MODULE Spec2Model ----
(***************************************************************************)
(* Model of backtesting.py: the trade-exit simulation (process_stock), the *)
(* thread-pool runner (run_backtest) and the performance summary           *)
(* (generate_backtest_summary).                                            *)
(*                                                                         *)
(* Prices are whole numbers.  The levels the code computes as              *)
(* entry_price * 1.15, * 1.25, * 1.35, * 0.7 and * 1.01 are kept in        *)
(* hundredths (entry_price * 115, ...), and a close is compared with a     *)
(* level as close * 100 against it.  For every pair of prices of PriceSet  *)
(* the floating-point comparisons of the code give the same answers.       *)
(***************************************************************************)
EXTENDS Integers, Sequences, FiniteSets, Bags, TLC

VARIABLES stock_data_dict, high_vol_weeks, task, walk, collected, results,
          origin, runPc, summary

vars == <<stock_data_dict, high_vol_weeks, task, walk, collected, results,
          origin, runPc, summary>>

(* ---------------------------- bounds ----------------------------------- *)
MaxDate == 4
MaxCandidates == 2

(* ---------------------------- values ----------------------------------- *)
(* Python's None in a slot that holds a date or a price, a day that is not *)
(* in the index of a frame, and a close that is not a number (text in the *)
(* close_price column).  Dates and prices are positive.                   *)
None == -1
Absent == -2
Malformed == -3
(* None where a result row is expected. *)
NoTrade == [none |-> TRUE]

Dates == 1..MaxDate
PriceSet == {69, 90, 100, 116, 120, 130, 140}

(* A series maps every calendar day to its close, or to Absent when the  *)
(* day is not in the index of the frame.                                  *)
InIndex(df_stock, date) == date \in DOMAIN df_stock /\ df_stock[date] # Absent

SetMin(S) == CHOOSE x \in S : \A y \in S : x <= y
SetMax(S) == CHOOSE x \in S : \A y \in S : x >= y

(* ------------------------- exact fractions ---------------------------- *)
(* Numbers the code holds as floats are exact fractions n/d with d > 0,   *)
(* in lowest terms; nan and inf are kept apart, as are the values round() *)
(* cannot take: a string and None.                                        *)
RECURSIVE GCD(_, _)
GCD(a, b) == IF b = 0 THEN a ELSE GCD(b, a % b)
Abs(x) == IF x < 0 THEN -x ELSE x
Ratio(n, d) ==
    LET g == GCD(Abs(n), d)
    IN  [kind |-> "num", n |-> n \div g, d |-> d \div g]
NaN == [kind |-> "nan"]
Inf == [kind |-> "inf"]
NA == [kind |-> "str", text |-> "N/A"]
NoneValue == [kind |-> "none"]

(* ---------------------- get_valid_entry_date --------------------------- *)
RECURSIVE FirstPresent(_, _, _, _)
FirstPresent(df_stock, week_end_date, i, n) ==
    IF i >= n THEN <<None, None>>
    ELSE IF InIndex(df_stock, week_end_date - i)
         THEN <<week_end_date - i, df_stock[week_end_date - i]>>
         ELSE FirstPresent(df_stock, week_end_date, i + 1, n)

get_valid_entry_date_earliest(df_stock, week_end_date) ==
    LET present == {i \in 0..2 : InIndex(df_stock, week_end_date - i)}
    IN  IF present = {} THEN <<None, None>>
        ELSE <<week_end_date - SetMax(present),
               df_stock[week_end_date - SetMax(present)]>>

get_valid_entry_date(df_stock, week_end_date) ==
    FirstPresent(df_stock, week_end_date, 0, 3)

(* --------------------------- process_stock ----------------------------- *)
Target1(entry_price) == entry_price * 115
Target2(entry_price) == entry_price * 125
Target3(entry_price) == entry_price * 135
InitialStop(entry_price) == entry_price * 70
LockedStop_below(entry_price) == entry_price * 99
LockedStop(entry_price) == entry_price * 101

(* The dates of df_stock[df_stock.index > entry_date] *)
future_data(df_stock, entry_date) ==
    {d \in DOMAIN df_stock : d > entry_date /\ df_stock[d] # Absent}

(* The date the for loop binds next, after `after`. *)
HasNext(df_stock, after) == future_data(df_stock, after) # {}
NextDate(df_stock, after) == SetMin(future_data(df_stock, after))

(* The three updates as an if / elif / elif chain. *)
Ratchet_elif(price, stop_loss, t) ==
    IF price * 100 >= t.target1 THEN LockedStop(t.entry_price)
    ELSE stop_loss

(* The first update moving the stop to the entry price itself. *)
Ratchet_breakeven(price, stop_loss, t) ==
    LET s1 == IF price * 100 >= t.target1 THEN t.entry_price * 100
              ELSE stop_loss
        s2 == IF price * 100 >= t.target2 THEN t.target1 ELSE s1
        s3 == IF price * 100 >= t.target3 THEN t.target2 ELSE s2
    IN  s3

(* The second update written with target3 for target1. *)
Ratchet_typo(price, stop_loss, t) ==
    LET s1 == IF price * 100 >= t.target1 THEN LockedStop(t.entry_price)
              ELSE stop_loss
        s2 == IF price * 100 >= t.target2 THEN t.target3 ELSE s1
        s3 == IF price * 100 >= t.target3 THEN t.target2 ELSE s2
    IN  s3

(* The second update moving the stop one tier too far, to target2. *)
Ratchet_shifted(price, stop_loss, t) ==
    LET s1 == IF price * 100 >= t.target1 THEN LockedStop(t.entry_price)
              ELSE stop_loss
        s2 == IF price * 100 >= t.target2 THEN t.target2 ELSE s1
        s3 == IF price * 100 >= t.target3 THEN t.target2 ELSE s2
    IN  s3

(* The stop recomputed from its initial value on a day below target1. *)
Ratchet_reset(price, stop_loss, t) ==
    LET s1 == IF price * 100 >= t.target1 THEN LockedStop(t.entry_price)
              ELSE InitialStop(t.entry_price)
        s2 == IF price * 100 >= t.target2 THEN t.target1 ELSE s1
        s3 == IF price * 100 >= t.target3 THEN t.target2 ELSE s2
    IN  s3

(* Lines 111-116: the three independent updates of stop_loss. *)
Ratchet(price, stop_loss, t) ==
    LET s1 == IF price * 100 >= t.target1 THEN LockedStop(t.entry_price)
              ELSE stop_loss
        s2 == IF price * 100 >= t.target2 THEN t.target1 ELSE s1
        s3 == IF price * 100 >= t.target3 THEN t.target2 ELSE s2
    IN  s3

(* The exit check without its final-target clause. *)
ExitCheck_stop_only(price, stop_loss, target3) ==
    price * 100 <= stop_loss

(* Line 118: the exit check. *)
ExitCheck(price, stop_loss, target3) ==
    price * 100 <= stop_loss \/ price * 100 >= target3

NewTask(row) ==
    [pc |-> "submitted", row |-> row,
     stock |-> None, volume_multiple |-> None, rsi_value |-> None,
     weekly_volume |-> None,
     entry_date |-> None, entry_price |-> None,
     target1 |-> None, target2 |-> None, target3 |-> None,
     stop_loss |-> None, date |-> None,
     exit_date |-> None, exit_price |-> None, result |-> NoTrade]

(* The lookup as stock_data_dict[stock]: an unknown symbol raises, and so *)
(* does a missing entry date used as a price.                             *)
Enter_unguarded(t, dict) ==
    LET row == t.row
        t0 == [t EXCEPT !.stock = row.stock_symbol,
                        !.volume_multiple = row.volume_multiple,
                        !.rsi_value = row.rsi_value,
                        !.weekly_volume = row.weekly_volume]
    IN  IF row.stock_symbol \notin DOMAIN dict
        THEN [t0 EXCEPT !.pc = "raised"]
        ELSE LET e == get_valid_entry_date(dict[row.stock_symbol],
                                           row.week_end_date)
             IN  IF e[1] = None \/ e[2] = Malformed
                 THEN [t0 EXCEPT !.pc = "raised", !.entry_date = e[1],
                                 !.entry_price = e[2]]
                 ELSE [t0 EXCEPT !.pc = "loop",
                                 !.entry_date = e[1], !.entry_price = e[2],
                                 !.target1 = Target1(e[2]),
                                 !.target2 = Target2(e[2]),
                                 !.target3 = Target3(e[2]),
                                 !.stop_loss = InitialStop(e[2])]

(* Lines 83-105: read the row, look the series up, resolve the entry and   *)
(* set the targets.  Arithmetic on a non-numeric close raises.             *)
Enter(t, dict) ==
    LET row == t.row
        t0 == [t EXCEPT !.stock = row.stock_symbol,
                        !.volume_multiple = row.volume_multiple,
                        !.rsi_value = row.rsi_value,
                        !.weekly_volume = row.weekly_volume]
    IN  IF row.stock_symbol \notin DOMAIN dict
        THEN [t0 EXCEPT !.pc = "returned"]
        ELSE LET e == get_valid_entry_date(dict[row.stock_symbol],
                                           row.week_end_date)
             IN  IF e[1] = None
                 THEN [t0 EXCEPT !.pc = "returned"]
                 ELSE IF e[2] = Malformed
                 THEN [t0 EXCEPT !.pc = "raised", !.entry_date = e[1],
                                 !.entry_price = e[2]]
                 ELSE [t0 EXCEPT !.pc = "loop",
                                 !.entry_date = e[1], !.entry_price = e[2],
                                 !.target1 = Target1(e[2]),
                                 !.target2 = Target2(e[2]),
                                 !.target3 = Target3(e[2]),
                                 !.stop_loss = InitialStop(e[2])]

(* The loop as an index scan that does not move on after a day without  *)
(* exit.                                                                  *)
Iterate_no_advance(t, df_stock, d) ==
    LET price == df_stock[d]
    IN  IF price = Malformed
        THEN [t EXCEPT !.pc = "raised", !.date = d,
                       !.row = [close_price |-> price]]
        ELSE LET sl == Ratchet(price, t.stop_loss, t)
             IN  IF ExitCheck(price, sl, t.target3)
                 THEN [t EXCEPT !.date = d, !.row = [close_price |-> price],
                                !.stop_loss = sl, !.exit_date = d,
                                !.exit_price = price, !.pc = "after_loop"]
                 ELSE [t EXCEPT !.row = [close_price |-> price],
                                !.stop_loss = sl]

(* The loop without its break: the scan goes on after an exit. *)
Iterate_no_break(t, df_stock, d) ==
    LET price == df_stock[d]
        t0 == [t EXCEPT !.date = d, !.row = [close_price |-> price]]
    IN  IF price = Malformed
        THEN [t0 EXCEPT !.pc = "raised"]
        ELSE LET sl == Ratchet(price, t.stop_loss, t)
             IN  IF price * 100 <= sl \/ price * 100 >= t.target3
                 THEN [t0 EXCEPT !.stop_loss = sl, !.exit_date = d,
                                 !.exit_price = price]
                 ELSE [t0 EXCEPT !.stop_loss = sl]

(* Lines 107-120: one iteration of the for loop, on date d. *)
Iterate(t, df_stock, d) ==
    LET price == df_stock[d]
        t0 == [t EXCEPT !.date = d, !.row = [close_price |-> price]]
    IN  IF price = Malformed
        THEN [t0 EXCEPT !.pc = "raised"]
        ELSE LET sl == Ratchet(price, t.stop_loss, t)
             IN  IF ExitCheck(price, sl, t.target3)
                 THEN [t0 EXCEPT !.stop_loss = sl, !.exit_date = d,
                                 !.exit_price = price, !.pc = "after_loop"]
                 ELSE [t0 EXCEPT !.stop_loss = sl]

(* The filter of line 104 as index >= entry_date: the scan starts on the *)
(* entry day.                                                             *)
Cursor_inclusive(t) == IF t.date = None THEN t.entry_date - 1 ELSE t.date

(* The position in the series the loop has reached. *)
Cursor(t) == IF t.date = None THEN t.entry_date ELSE t.date

(* The return with an exhausted series closed out on its last day. *)
Outcome_last_day(t) ==
    LET xd == IF t.exit_date = None THEN t.date ELSE t.exit_date
        xp == IF t.exit_date = None THEN t.row.close_price ELSE t.exit_price
        profit_loss == xp - t.entry_price
    IN  IF xd = None THEN NoTrade
        ELSE [stock |-> t.stock,
              entry_date |-> t.entry_date, entry_price |-> t.entry_price,
              exit_date |-> xd, exit_price |-> xp,
              profit_loss |-> profit_loss,
              profit_loss_pct |-> Ratio(profit_loss * 100, t.entry_price),
              profit_or_loss |-> IF profit_loss > 0 THEN "Profit" ELSE "Loss",
              days_in_trade |-> xd - t.entry_date,
              volume_multiple |-> t.volume_multiple,
              rsi_value |-> t.rsi_value,
              weekly_volume |-> t.weekly_volume]

(* The return with the exit filled at the level that was crossed, the   *)
(* final target or the stop-loss, instead of at the close.                *)
Outcome_filled_at_level(t) ==
    IF t.exit_date = None THEN NoTrade
    ELSE LET xp == IF t.exit_price * 100 >= t.target3
                   THEN t.target3 \div 100
                   ELSE t.stop_loss \div 100
             profit_loss == xp - t.entry_price
         IN  [stock |-> t.stock,
              entry_date |-> t.entry_date, entry_price |-> t.entry_price,
              exit_date |-> t.exit_date, exit_price |-> xp,
              profit_loss |-> profit_loss,
              profit_loss_pct |-> Ratio(profit_loss * 100, t.entry_price),
              profit_or_loss |-> IF profit_loss > 0 THEN "Profit" ELSE "Loss",
              days_in_trade |-> t.exit_date - t.entry_date,
              volume_multiple |-> t.volume_multiple,
              rsi_value |-> t.rsi_value,
              weekly_volume |-> t.weekly_volume]

(* The return with a break-even trade counted as a Profit. *)
Outcome_zero_profit(t) ==
    IF t.exit_date = None THEN NoTrade
    ELSE LET profit_loss == t.exit_price - t.entry_price
         IN  [stock |-> t.stock,
              entry_date |-> t.entry_date, entry_price |-> t.entry_price,
              exit_date |-> t.exit_date, exit_price |-> t.exit_price,
              profit_loss |-> profit_loss,
              profit_loss_pct |-> Ratio(profit_loss * 100, t.entry_price),
              profit_or_loss |-> IF profit_loss >= 0 THEN "Profit" ELSE "Loss",
              days_in_trade |-> t.exit_date - t.entry_date,
              volume_multiple |-> t.volume_multiple,
              rsi_value |-> t.rsi_value,
              weekly_volume |-> t.weekly_volume]

(* The return without the guard of lines 122-123. *)
Outcome_partial(t) ==
    LET profit_loss == t.exit_price - t.entry_price
    IN  [stock |-> t.stock,
         entry_date |-> t.entry_date, entry_price |-> t.entry_price,
         exit_date |-> t.exit_date, exit_price |-> t.exit_price,
         profit_loss |-> profit_loss,
         profit_loss_pct |-> Ratio(profit_loss * 100, t.entry_price),
         profit_or_loss |-> IF profit_loss > 0 THEN "Profit" ELSE "Loss",
         days_in_trade |-> t.exit_date - t.entry_date,
         volume_multiple |-> t.volume_multiple,
         rsi_value |-> t.rsi_value,
         weekly_volume |-> t.weekly_volume]

(* Lines 122-135: the record returned for an exit, None without one. *)
Outcome(t) ==
    IF t.exit_date = None THEN NoTrade
    ELSE LET profit_loss == t.exit_price - t.entry_price
         IN  [stock |-> t.stock,
              entry_date |-> t.entry_date, entry_price |-> t.entry_price,
              exit_date |-> t.exit_date, exit_price |-> t.exit_price,
              profit_loss |-> profit_loss,
              profit_loss_pct |-> Ratio(profit_loss * 100, t.entry_price),
              profit_or_loss |-> IF profit_loss > 0 THEN "Profit" ELSE "Loss",
              days_in_trade |-> t.exit_date - t.entry_date,
              volume_multiple |-> t.volume_multiple,
              rsi_value |-> t.rsi_value,
              weekly_volume |-> t.weekly_volume]

(* process_stock run from its first line to its return, in one thread;   *)
(* NoTrade also stands for a call that raised.                            *)
RECURSIVE RunTask(_, _)
RunTask(t, dict) ==
    IF t.pc = "submitted" THEN RunTask(Enter(t, dict), dict)
    ELSE IF t.pc = "loop" /\ HasNext(dict[t.stock], Cursor(t))
    THEN RunTask(Iterate(t, dict[t.stock],
                         NextDate(dict[t.stock], Cursor(t))), dict)
    ELSE IF t.pc \in {"loop", "after_loop"} THEN Outcome(t)
    ELSE NoTrade
process_stock(row, dict) == RunTask(NewTask(row), dict)

(* --------------------- generate_backtest_summary ----------------------- *)
IsNum(v) == v.kind = "num"
RAdd(a, b) == Ratio(a.n * b.d + b.n * a.d, a.d * b.d)
RLess(a, b) == a.n * b.d < b.n * a.d
RAbs(v) == IF IsNum(v) THEN Ratio(Abs(v.n), v.d) ELSE v

(* a / b on floats: nan spreads, a zero divisor gives inf or nan. *)
FDiv(a, b) ==
    IF ~IsNum(a) \/ ~IsNum(b) THEN NaN
    ELSE IF b.n = 0 THEN (IF a.n = 0 THEN NaN ELSE Inf)
    ELSE IF b.n > 0 THEN Ratio(a.n * b.d, a.d * b.n)
    ELSE Ratio(-(a.n * b.d), a.d * (-b.n))

(* Truth value of a float in a conditional: only zero is false. *)
Truthy(v) == ~(IsNum(v) /\ v.n = 0)

(* round(v, 2): the nearest hundredth, ties to even; nan and inf pass,   *)
(* a string or None has no __round__.                                     *)
RoundRaises(v) == v.kind \in {"str", "none"}
Round2(v) ==
    IF ~IsNum(v) THEN v
    ELSE LET num == v.n * 100
             q == num \div v.d
             r == num % v.d
             up == 2 * r > v.d \/ (2 * r = v.d /\ q % 2 = 1)
         IN  Ratio(IF up THEN q + 1 ELSE q, 100)

RECURSIVE SumPct(_)
SumPct(rows) ==
    IF rows = <<>> THEN Ratio(0, 1)
    ELSE RAdd(Head(rows).profit_loss_pct, SumPct(Tail(rows)))

RECURSIVE SumPL(_)
SumPL(rows) ==
    IF rows = <<>> THEN 0 ELSE Head(rows).profit_loss + SumPL(Tail(rows))

(* Series.mean(): nan on an empty selection. *)
MeanPct(rows) ==
    IF rows = <<>> THEN NaN
    ELSE LET s == SumPct(rows) IN Ratio(s.n, s.d * Len(rows))

(* Series.min(): nan on an empty frame. *)
RECURSIVE MinPct(_)
MinPct(rows) ==
    IF rows = <<>> THEN NaN
    ELSE LET m == MinPct(Tail(rows))
             h == Head(rows).profit_loss_pct
         IN  IF ~IsNum(m) \/ RLess(h, m) THEN h ELSE m

IsProfit(r) == r.profit_or_loss = "Profit"
IsLoss(r) == r.profit_or_loss = "Loss"

(* Lines 173-184: the statistics before they are rounded. *)
Statistics(df) ==
    LET total_trades == Len(df)
        wins == SelectSeq(df, IsProfit)
        losses == SelectSeq(df, IsLoss)
        avg_profit_pct == MeanPct(wins)
        avg_loss_pct == MeanPct(losses)
    IN  [total_trades |-> total_trades,
         win_ratio |-> IF total_trades # 0
                       THEN Ratio(Len(wins) * 100, total_trades)
                       ELSE Ratio(0, 1),
         avg_profit_pct |-> avg_profit_pct,
         avg_loss_pct |-> avg_loss_pct,
         risk_reward_ratio |-> IF Truthy(avg_loss_pct)
                               THEN RAbs(FDiv(avg_profit_pct, avg_loss_pct))
                               ELSE NoneValue,
         max_drawdown |-> MinPct(df),
         profit_factor |-> IF losses # <<>>
                           THEN FDiv(Ratio(SumPL(wins), 1),
                                     Ratio(Abs(SumPL(losses)), 1))
                           ELSE NA]

(* Lines 186-197: the summary dict, or the TypeError of a round() call. *)
NoSummary == [written |-> FALSE, raised |-> FALSE]
generate_backtest_summary(df) ==
    LET st == Statistics(df)
    IN  IF \/ RoundRaises(st.win_ratio) \/ RoundRaises(st.avg_profit_pct)
           \/ RoundRaises(st.avg_loss_pct) \/ RoundRaises(st.max_drawdown)
           \/ RoundRaises(st.profit_factor)
           \/ RoundRaises(st.risk_reward_ratio)
        THEN [written |-> FALSE, raised |-> TRUE]
        ELSE [written |-> TRUE, raised |-> FALSE,
              total_trades |-> st.total_trades,
              win_ratio |-> Round2(st.win_ratio),
              avg_profit_pct |-> Round2(st.avg_profit_pct),
              avg_loss_pct |-> Round2(st.avg_loss_pct),
              max_drawdown |-> Round2(st.max_drawdown),
              profit_factor |-> Round2(st.profit_factor),
              risk_reward_ratio |-> Round2(st.risk_reward_ratio)]

(* ------------------------------ inputs --------------------------------- *)
Pad(closes) ==
    [d \in Dates |-> IF d <= Len(closes) THEN closes[d] ELSE Absent]

Row(stock, week_end_date, volume_multiple) ==
    [stock_symbol |-> stock, week_end_date |-> week_end_date,
     volume_multiple |-> volume_multiple, rsi_value |-> 55,
     weekly_volume |-> 1000]

Tasks == 1..Len(high_vol_weeks)

StartState ==
    /\ task = [i \in Tasks |-> NewTask(high_vol_weeks[i])]
    /\ walk = [i \in Tasks |-> <<>>]
    /\ collected = {}
    /\ results = <<>>
    /\ origin = <<>>
    /\ runPc = "collecting"
    /\ summary = NoSummary

(* One candidate over every series of closes on the days 1..MaxDate. *)
InitSim ==
    /\ \E series \in [Dates -> PriceSet \cup {Absent}] :
          stock_data_dict = [s \in {"A"} |-> series]
    /\ \E d \in Dates, vm \in {2, 3} :
          high_vol_weeks = <<Row("A", d, vm)>>
    /\ StartState

(* Up to MaxCandidates candidates over a fixed table of series. *)
RunTable ==
    [s \in {"A", "B", "C", "D", "E", "F"} |->
        CASE s = "A" -> Pad(<<100, 90, 116, 69>>)
          [] s = "B" -> Pad(<<100, 120, 130, 140>>)
          [] s = "C" -> Pad(<<100, 116, 100>>)
          [] s = "D" -> Pad(<<100, 90, 90>>)
          [] s = "E" -> Pad(<<100, Malformed, 140>>)
          [] s = "F" -> Pad(<<Absent, 100, 140>>)]
RunStocks == {"A", "B", "C", "D", "E", "F", "Z"}

InitRun ==
    /\ stock_data_dict = RunTable
    /\ \E n \in 0..MaxCandidates :
          \E rows \in [1..n -> {Row(s, 1, vm) : s \in RunStocks,
                                                   vm \in {2, 3}}] :
             high_vol_weeks = rows
    /\ StartState

(* ----------------------------- actions --------------------------------- *)
(* A worker thread runs lines 83-105 of process_stock for candidate i. *)
Start(i) ==
    /\ task[i].pc = "submitted"
    /\ task' = [task EXCEPT ![i] = Enter(task[i], stock_data_dict)]
    /\ UNCHANGED <<stock_data_dict, high_vol_weeks, walk, collected, results,
                   origin, runPc, summary>>

(* One iteration of the for loop of lines 107-120. *)
Day(i) ==
    /\ task[i].pc = "loop"
    /\ HasNext(stock_data_dict[task[i].stock], Cursor(task[i]))
    /\ LET df_stock == stock_data_dict[task[i].stock]
           d == NextDate(df_stock, Cursor(task[i]))
           t == Iterate(task[i], df_stock, d)
       IN  /\ task' = [task EXCEPT ![i] = t]
           /\ walk' = [walk EXCEPT ![i] =
                          IF t.pc = "raised" THEN @
                          ELSE Append(@, [date |-> d, price |-> df_stock[d],
                                          stop_loss |-> t.stop_loss])]
    /\ UNCHANGED <<stock_data_dict, high_vol_weeks, collected, results,
                   origin, runPc, summary>>

(* Lines 122-135, after the break or at the end of future_data. *)
Return(i) ==
    /\ \/ task[i].pc = "after_loop"
       \/ /\ task[i].pc = "loop"
          /\ ~HasNext(stock_data_dict[task[i].stock], Cursor(task[i]))
    /\ task' = [task EXCEPT ![i] = [task[i] EXCEPT
                                       !.pc = "returned",
                                       !.result = Outcome(task[i])]]
    /\ UNCHANGED <<stock_data_dict, high_vol_weeks, walk, collected, results,
                   origin, runPc, summary>>

(* Lines 154-157: as_completed hands over a finished future; result()    *)
(* re-raises what the task raised.                                        *)
Collect(i) ==
    /\ runPc = "collecting"
    /\ i \notin collected
    /\ task[i].pc \in {"returned", "raised"}
    /\ collected' = collected \cup {i}
    /\ IF task[i].pc = "raised"
       THEN /\ runPc' = "aborted"
            /\ UNCHANGED <<results, origin>>
       ELSE /\ runPc' = runPc
            /\ IF task[i].result # NoTrade
               THEN /\ results' = Append(results, task[i].result)
                    /\ origin' = Append(origin, i)
               ELSE UNCHANGED <<results, origin>>
    /\ UNCHANGED <<stock_data_dict, high_vol_weeks, task, walk, summary>>

(* The summary taken without waiting for every future. *)
Summarize_early ==
    /\ runPc = "collecting"
    /\ summary' = generate_backtest_summary(results)
    /\ runPc' = IF summary'.raised THEN "summary_raised" ELSE "done"
    /\ UNCHANGED <<stock_data_dict, high_vol_weeks, task, walk, collected,
                   results, origin>>

(* Lines 159-168: every future has been collected. *)
Summarize ==
    /\ runPc = "collecting"
    /\ collected = Tasks
    /\ summary' = generate_backtest_summary(results)
    /\ runPc' = IF summary'.raised THEN "summary_raised" ELSE "done"
    /\ UNCHANGED <<stock_data_dict, high_vol_weeks, task, walk, collected,
                   results, origin>>

Next ==
    \/ \E i \in Tasks : Start(i)
    \/ \E i \in Tasks : Day(i)
    \/ \E i \in Tasks : Return(i)
    \/ \E i \in Tasks : Collect(i)
    \/ Summarize

SpecSim == InitSim /\ [][Next]_vars
Spec == InitRun /\ [][Next]_vars

(* The pool's threads run every submitted task to its end, and the main  *)
(* thread takes every finished future that as_completed hands over and   *)
(* then goes on to the summary.  Summarize changes runPc whenever its    *)
(* guard holds, so its weak fairness is written with the guard.           *)
SummarizeEnabled == runPc = "collecting" /\ collected = Tasks
Fairness ==
    /\ WF_vars(\E i \in Tasks : Start(i) \/ Day(i) \/ Return(i))
    /\ WF_vars(\E i \in Tasks : Collect(i))
    /\ []<>~SummarizeEnabled
FairSpec == InitRun /\ [][Next]_vars /\ Fairness

(* ----------------------------- properties ------------------------------ *)
Series(i) == stock_data_dict[task[i].stock]
Entered(i) == task[i].pc \in {"loop", "after_loop", "returned"}
               /\ task[i].entry_date # None
Finished == runPc \in {"done", "summary_raised"}
Range(f) == {f[k] : k \in DOMAIN f}
Closes(w) == [k \in 1..Len(w) |-> w[k].price]

(* C1: within one simulation the stop-loss after evaluating day k+1 is   *)
(* greater than or equal to the stop-loss after evaluating day k.         *)
C1_RatchetMonotone ==
    \A i \in Tasks : \A k \in 1..(Len(walk[i]) - 1) :
        walk[i][k + 1].stop_loss >= walk[i][k].stop_loss

(* C2: a failed simulation task does not abort the run; when the run has *)
(* ended, every candidate whose simulation exited has its Trade among    *)
(* the results.                                                           *)
C2_FailureIsolated ==
    /\ runPc # "aborted"
    /\ Finished =>
          \A i \in Tasks :
              (task[i].pc = "returned" /\ task[i].result # NoTrade)
                  => i \in Range(origin)

(* C3: the exit day is the first day after entry_date, in date order, on *)
(* which, after that day's ratchet update, close <= stop_loss or         *)
(* close >= target3; no later day is evaluated and the exit is not       *)
(* overwritten.  Entry 100 with closes 90, 116, 69 exits on the third    *)
(* day at 69; closes 120, 130, 140 exit on the third day at 140.          *)
ExitsOn(i, e) ==
    \/ e.price * 100 <= e.stop_loss
    \/ e.price * 100 >= task[i].entry_price * 135
C3_EarliestExit ==
    \A i \in Tasks : Entered(i) =>
        LET t == task[i]
            w == walk[i]
            n == Len(w)
        IN  /\ \A k \in 1..n : w[k].price = Series(i)[w[k].date]
            /\ \A k \in 1..(n - 1) : w[k].date < w[k + 1].date
            /\ n > 0 =>
                  {w[k].date : k \in 1..n} =
                  {d \in future_data(Series(i), t.entry_date) : d <= w[n].date}
            /\ \A k \in 1..(n - 1) : ~ExitsOn(i, w[k])
            /\ (t.exit_date = None /\ n > 0) => ~ExitsOn(i, w[n])
            /\ t.exit_date # None =>
                  /\ n > 0
                  /\ ExitsOn(i, w[n])
                  /\ t.exit_date = w[n].date
                  /\ t.exit_price = w[n].price
                  /\ t.date = t.exit_date
            /\ (t.pc = "returned" /\ t.exit_date = None) =>
                  {w[k].date : k \in 1..n} =
                  future_data(Series(i), t.entry_date)
            /\ (t.pc = "returned" /\ t.exit_date # None) =>
                  /\ t.result # NoTrade
                  /\ t.result.exit_date = t.exit_date
                  /\ t.result.exit_price = t.exit_price
            /\ (t.pc = "returned" /\ t.entry_price = 100 /\ n >= 3
                  /\ SubSeq(Closes(w), 1, 3) = <<90, 116, 69>>) =>
                  (n = 3 /\ t.result # NoTrade /\ t.result.exit_price = 69)
            /\ (t.pc = "returned" /\ t.entry_price = 100 /\ n >= 3
                  /\ SubSeq(Closes(w), 1, 3) = <<120, 130, 140>>) =>
                  (n = 3 /\ t.result # NoTrade /\ t.result.exit_price = 140)
C3_Witness ==
    \E i \in Tasks :
        /\ task[i].pc = "returned"
        /\ task[i].entry_price = 100
        /\ Closes(walk[i]) = <<90, 116, 69>>
        /\ task[i].result # NoTrade
        /\ task[i].result.exit_price = 69
        /\ task[i].result.exit_date = walk[i][3].date

(* C4: a day whose close is >= entry_price x 1.35 ends the simulation    *)
(* that day with exit (date, close), whatever the stop-loss was before.   *)
C4_FinalTargetExit ==
    \A i \in Tasks : \A k \in 1..Len(walk[i]) :
        walk[i][k].price * 100 >= task[i].entry_price * 135 =>
            /\ k = Len(walk[i])
            /\ task[i].pc \in {"after_loop", "returned"}
            /\ task[i].exit_date = walk[i][k].date
            /\ task[i].exit_price = walk[i][k].price
C4_Witness ==
    \E i \in Tasks :
        /\ Len(walk[i]) = 2
        /\ walk[i][1].stop_loss = task[i].entry_price * 101
        /\ walk[i][2].price * 100 >= task[i].entry_price * 135
        /\ task[i].exit_date = walk[i][2].date

(* C5: whatever the interleaving and the completion order, a run that    *)
(* ends holds the Trades that simulating each candidate in turn gives,   *)
(* as a bag.                                                              *)
RECURSIVE BagOfSeq(_)
BagOfSeq(sq) ==
    IF sq = <<>> THEN EmptyBag
    ELSE SetToBag({Head(sq)}) (+) BagOfSeq(Tail(sq))
RECURSIVE Sequential(_)
Sequential(rows) ==
    IF rows = <<>> THEN <<>>
    ELSE LET r == process_stock(Head(rows), stock_data_dict)
         IN  IF r = NoTrade THEN Sequential(Tail(rows))
             ELSE <<r>> \o Sequential(Tail(rows))
C5_OrderIndependent ==
    Finished => BagOfSeq(results) = BagOfSeq(Sequential(high_vol_weeks))
C5_Witness ==
    /\ Finished
    /\ Len(results) >= 2
    /\ origin[1] > origin[2]

(* C6: the results hold at most one Trade per submitted candidate, each  *)
(* with an entry and an exit; a candidate without a valid entry or       *)
(* without an exit has no record.                                         *)
C6_OneCompleteTrade ==
    /\ Len(origin) = Len(results)
    /\ \A k \in 1..Len(origin) : origin[k] \in collected
    /\ \A j, k \in 1..Len(origin) : origin[j] = origin[k] => j = k
    /\ \A k \in 1..Len(results) :
          /\ results[k].entry_date # None /\ results[k].entry_price # None
          /\ results[k].exit_date # None /\ results[k].exit_price # None
          /\ results[k] = task[origin[k]].result
    /\ \A i \in collected :
          (task[i].entry_date = None \/ task[i].exit_date = None)
              => i \notin Range(origin)
C6_Witness ==
    /\ Len(results) = 1
    /\ \E i \in collected :
          /\ task[i].pc = "returned"
          /\ task[i].entry_date # None
          /\ task[i].exit_date = None
          /\ i \notin Range(origin)

(* C7: with zero trades the summary is produced without raising, with    *)
(* total_trades = 0, win ratio 0 and avg_profit_pct, avg_loss_pct,       *)
(* profit_factor and risk_reward_ratio undefined.                         *)
Undefined(v) == v.kind \in {"nan", "str", "none"}
C7_EmptySummary ==
    (Finished /\ results = <<>>) =>
        /\ summary.written
        /\ summary.total_trades = 0
        /\ summary.win_ratio = Ratio(0, 1)
        /\ Undefined(summary.avg_profit_pct)
        /\ Undefined(summary.avg_loss_pct)
        /\ Undefined(summary.profit_factor)
        /\ Undefined(summary.risk_reward_ratio)

(* C8: for a non-empty trade list without a Loss trade the summary is    *)
(* produced and reports profit_factor as undefined; with a Loss trade    *)
(* profit_factor is sum(Profit profit_loss) / |sum(Loss profit_loss)|.    *)
C8_ProfitFactor ==
    (Finished /\ results # <<>>) =>
        LET wins == SelectSeq(results, IsProfit)
            losses == SelectSeq(results, IsLoss)
        IN  IF losses = <<>>
            THEN summary.written /\ Undefined(summary.profit_factor)
            ELSE summary.written =>
                   summary.profit_factor =
                     Round2(FDiv(Ratio(SumPL(wins), 1),
                                 Ratio(Abs(SumPL(losses)), 1)))

(* C9: reporting risk_reward_ratio does not raise; it is undefined when  *)
(* avg_loss_pct is zero or undefined and |avg_profit_pct / avg_loss_pct| *)
(* otherwise.                                                             *)
C9_RiskReward ==
    Finished =>
        LET st == Statistics(results)
            noLoss == ~IsNum(st.avg_loss_pct) \/ st.avg_loss_pct.n = 0
        IN  /\ ~RoundRaises(st.risk_reward_ratio)
            /\ summary.written =>
                  IF noLoss THEN Undefined(summary.risk_reward_ratio)
                  ELSE summary.risk_reward_ratio =
                         Round2(RAbs(FDiv(MeanPct(SelectSeq(results, IsProfit)),
                                          MeanPct(SelectSeq(results, IsLoss)))))

(* C10: the entry date is the first of reference_date, reference_date-1, *)
(* reference_date-2 that is in the series, with the close of that date:  *)
(* the latest series date within the three days, never after             *)
(* reference_date; without such a date there is no entry.                 *)
Lookback(i) ==
    {d \in (high_vol_weeks[i].week_end_date - 2)..
            high_vol_weeks[i].week_end_date : InIndex(Series(i), d)}
C10_EntryResolver ==
    \A i \in Tasks :
        (task[i].pc # "submitted" /\ task[i].stock \in DOMAIN stock_data_dict)
        => IF Lookback(i) = {}
           THEN /\ task[i].entry_date = None
                /\ task[i].entry_price = None
                /\ task[i].pc = "returned"
                /\ task[i].result = NoTrade
           ELSE /\ task[i].entry_date = SetMax(Lookback(i))
                /\ task[i].entry_price = Series(i)[SetMax(Lookback(i))]
                /\ task[i].entry_date <= high_vol_weeks[i].week_end_date
C10_Witness ==
    \E i \in Tasks :
        /\ task[i].pc = "loop"
        /\ ~InIndex(Series(i), high_vol_weeks[i].week_end_date)
        /\ task[i].entry_date = high_vol_weeks[i].week_end_date - 1
        /\ InIndex(Series(i), high_vol_weeks[i].week_end_date - 2)

(* C11: a candidate whose instrument is not in the price map, or whose   *)
(* reference_date and the two days before it are all missing from its    *)
(* series, returns without a Trade and without an error; it has no row   *)
(* in the results, and a run only aborts on a task that raised.           *)
RowSeries(i) == stock_data_dict[high_vol_weeks[i].stock_symbol]
MissingData(i) ==
    \/ high_vol_weeks[i].stock_symbol \notin DOMAIN stock_data_dict
    \/ \A d \in (high_vol_weeks[i].week_end_date - 2)..
                 high_vol_weeks[i].week_end_date : ~InIndex(RowSeries(i), d)
C11_MissingDataSilent ==
    /\ \A i \in Tasks :
          (MissingData(i) /\ task[i].pc # "submitted") =>
              /\ task[i].pc = "returned"
              /\ task[i].result = NoTrade
              /\ walk[i] = <<>>
              /\ i \notin Range(origin)
    /\ runPc = "aborted" =>
          \E j \in collected : task[j].pc = "raised" /\ ~MissingData(j)
    /\ Finished =>
          \A j \in Tasks :
              (task[j].result # NoTrade) => j \in Range(origin)
C11_Witness ==
    /\ Finished
    /\ \E i, j \in collected :
          /\ high_vol_weeks[i].stock_symbol \notin DOMAIN stock_data_dict
          /\ high_vol_weeks[j].stock_symbol \in DOMAIN stock_data_dict
          /\ MissingData(j)
          /\ task[i].pc = "returned" /\ task[j].pc = "returned"

(* C12: when no day after entry_date passes the exit check, also when    *)
(* the series has no day after entry_date, the simulation returns        *)
(* without a Trade and without an error.                                  *)
NoExitDay(i) ==
    /\ {walk[i][k].date : k \in 1..Len(walk[i])} =
         future_data(Series(i), task[i].entry_date)
    /\ \A k \in 1..Len(walk[i]) : ~ExitsOn(i, walk[i][k])
C12_UnresolvedExit ==
    \A i \in Tasks :
        (Entered(i) /\ NoExitDay(i)) =>
            /\ task[i].exit_date = None
            /\ task[i].pc \in {"loop", "returned"}
            /\ task[i].pc = "returned" =>
                  (task[i].result = NoTrade /\ i \notin Range(origin))
            /\ i \in collected => task[i].pc = "returned"
C12_Witness ==
    \E i \in Tasks :
        /\ Entered(i) /\ NoExitDay(i)
        /\ Len(walk[i]) = 2
        /\ task[i].pc = "returned"
        /\ i \in collected
        /\ results = <<>>

(* C13: a Trade is a Profit exactly when profit_loss = exit_price -      *)
(* entry_price is above zero; a profit_loss of exactly zero is a Loss.    *)
C13_ProfitIffPositive ==
    \A i \in Tasks :
        (task[i].pc = "returned" /\ task[i].result # NoTrade) =>
            LET r == task[i].result
                pl == Series(i)[r.exit_date] - Series(i)[r.entry_date]
            IN  /\ r.profit_loss = pl
                /\ r.profit_or_loss \in {"Profit", "Loss"}
                /\ r.profit_or_loss = "Profit" <=> pl > 0
                /\ pl = 0 => r.profit_or_loss = "Loss"
C13_Witness ==
    \E i \in Tasks :
        /\ task[i].pc = "returned" /\ task[i].result # NoTrade
        /\ task[i].result.exit_price = task[i].result.entry_price
        /\ task[i].result.profit_or_loss = "Loss"

(* C14: for every Trade exit_date is after entry_date and days_held is   *)
(* exit_date - entry_date in calendar days, at least 0; the entry day is *)
(* never evaluated as an exit day.                                        *)
C14_ExitAfterEntry ==
    \A i \in Tasks :
        /\ Entered(i) =>
              \A k \in 1..Len(walk[i]) : walk[i][k].date > task[i].entry_date
        /\ (task[i].pc = "returned" /\ task[i].result # NoTrade) =>
              LET r == task[i].result
              IN  /\ r.exit_date > r.entry_date
                  /\ r.days_in_trade = r.exit_date - r.entry_date
                  /\ r.days_in_trade >= 0
                  /\ r.entry_date = task[i].entry_date
C14_Witness ==
    \E i \in Tasks :
        /\ task[i].pc = "returned" /\ task[i].result # NoTrade
        /\ Len(walk[i]) = 1
        /\ task[i].result.days_in_trade = 3

(* C15: the three ratchet rules are all evaluated on a day, before the   *)
(* exit check: a day with close >= target3 leaves stop_loss = target2    *)
(* and exits that day, also when no earlier day reached target1; a day   *)
(* with target2 <= close < target3 leaves stop_loss = target1 and does   *)
(* not exit.                                                              *)
C15_CumulativeRatchet ==
    \A i \in Tasks : Entered(i) =>
        \A k \in 1..Len(walk[i]) :
            LET e == task[i].entry_price
                p == walk[i][k].price * 100
            IN  /\ p >= e * 135 =>
                      /\ walk[i][k].stop_loss = e * 125
                      /\ task[i].exit_date = walk[i][k].date
                /\ (p >= e * 125 /\ p < e * 135) =>
                      /\ walk[i][k].stop_loss = e * 115
                      /\ task[i].exit_date # walk[i][k].date
C15_Witness ==
    \E i \in Tasks :
        /\ Entered(i)
        /\ Len(walk[i]) = 2
        /\ walk[i][1].price * 100 < task[i].entry_price * 115
        /\ walk[i][1].stop_loss = task[i].entry_price * 70
        /\ walk[i][2].price * 100 >= task[i].entry_price * 135
        /\ walk[i][2].stop_loss = task[i].entry_price * 125
        /\ task[i].exit_date = walk[i][2].date

(* C16: once some day's close has reached target1, every exit of the     *)
(* trade has exit_price > entry_price and the Trade is a Profit.          *)
ReachedTarget1(i) ==
    \E k \in 1..Len(walk[i]) :
        walk[i][k].price * 100 >= task[i].entry_price * 115
C16_GuaranteedGain ==
    \A i \in Tasks :
        (task[i].pc = "returned" /\ task[i].result # NoTrade
            /\ ReachedTarget1(i)) =>
            /\ task[i].result.exit_price > task[i].result.entry_price
            /\ task[i].result.profit_or_loss = "Profit"

(* C16, amended: once some day's close has reached target1, the trade    *)
(* exits on a day whose close is >= target3, or whose close is <= the    *)
(* stop-loss, which is then at least entry_price x 1.01; the exit price  *)
(* is that day's close, and the Trade is a Profit only when that close   *)
(* is above entry_price and a Loss otherwise.                             *)
C16_LockedStopExit ==
    \A i \in Tasks :
        (task[i].pc = "returned" /\ task[i].result # NoTrade
            /\ ReachedTarget1(i)) =>
            LET r == task[i].result
                last == walk[i][Len(walk[i])]
                e == task[i].entry_price
            IN  /\ r.exit_price = last.price
                /\ r.exit_price = Series(i)[r.exit_date]
                /\ \/ last.price * 100 >= e * 135
                   \/ /\ last.price * 100 <= last.stop_loss
                      /\ last.stop_loss >= e * 101
                /\ r.profit_or_loss = "Profit" <=> r.exit_price > e
                /\ r.profit_or_loss = "Loss" <=> r.exit_price <= e
C16_Witness ==
    \E i \in Tasks :
        /\ task[i].pc = "returned" /\ task[i].result # NoTrade
        /\ ReachedTarget1(i)
        /\ task[i].result.exit_price < task[i].entry_price
        /\ task[i].result.profit_or_loss = "Loss"

(* C17: the stop-loss is always one of entry_price x 0.70, entry_price x *)
(* 1.01, target1 = entry_price x 1.15 and target2 = entry_price x 1.25;  *)
(* the three targets are those computed from the entry price at entry    *)
(* throughout the walk.                                                   *)
StopLevels(e) == {e * 70, e * 101, e * 115, e * 125}
AllTerminal == \A i \in Tasks : task[i].pc \in {"returned", "raised"}
C18_Bounded ==
    /\ \A i \in Tasks :
          /\ task[i].entry_date # None =>
                Len(walk[i]) <=
                  Cardinality(future_data(RowSeries(i), task[i].entry_date))
          /\ task[i].entry_date = None => walk[i] = <<>>
    /\ Finished =>
          /\ collected = Tasks
          /\ \A i \in Tasks : task[i].pc = "returned"
    /\ runPc = "aborted" => \E i \in collected : task[i].pc = "raised"
    /\ Len(origin) <= Cardinality(collected)
C18_Termination ==
    /\ []C18_Bounded
    /\ <>(/\ AllTerminal
          /\ runPc # "collecting"
          /\ (\A i \in Tasks : task[i].pc = "returned")
                => (Finished /\ collected = Tasks))
C18_Witness ==
    /\ Finished
    /\ Len(high_vol_weeks) = 2
    /\ collected = Tasks
    /\ \E i \in Tasks : Len(walk[i]) = 3
    /\ \E i \in Tasks : task[i].result = NoTrade

(* C19: a Trade carries the symbol and the volume_multiple, rsi and      *)
(* volume of its own candidate, whatever the loop bound to `row`; its    *)
(* entry_price and exit_price are the series closes at entry_date and    *)
(* exit_date, never a stop or target level; the simulation changes       *)
(* neither the price series nor the candidates.                           *)
C19_OwnFields ==
    /\ \A k \in 1..Len(results) :
          LET r == results[k]
              c == high_vol_weeks[origin[k]]
          IN  /\ r.stock = c.stock_symbol
              /\ r.volume_multiple = c.volume_multiple
              /\ r.rsi_value = c.rsi_value
              /\ r.weekly_volume = c.weekly_volume
              /\ r.entry_price = stock_data_dict[c.stock_symbol][r.entry_date]
              /\ r.exit_price = stock_data_dict[c.stock_symbol][r.exit_date]
    /\ \A i \in Tasks :
          (task[i].pc = "returned" /\ task[i].result # NoTrade) =>
              /\ task[i].row # high_vol_weeks[i]
              /\ task[i].result.volume_multiple =
                   high_vol_weeks[i].volume_multiple
    /\ stock_data_dict = RunTable
C19_FieldsUnchanged ==
    /\ []C19_OwnFields
    /\ [][/\ stock_data_dict' = stock_data_dict
          /\ high_vol_weeks' = high_vol_weeks]_vars
C19_Witness ==
    /\ Len(results) = 2
    /\ origin = <<2, 1>>
    /\ results[1].stock = results[2].stock
    /\ results[1].volume_multiple # results[2].volume_multiple
    /\ results[1].exit_price * 100 < task[2].stop_loss

(* C20: a Trade whose exit day had close >= target3 is a Profit; a Loss  *)
(* Trade left through the stop-loss on a day whose close was below       *)
(* target1; on a day with target1 <= close < target3 the stop after the  *)
(* ratchet is strictly below the close and the trade does not exit.       *)
C20_ExitKinds ==
    \A i \in Tasks : Entered(i) =>
        LET e == task[i].entry_price
            w == walk[i]
        IN  /\ \A k \in 1..Len(w) :
                  (w[k].price * 100 >= e * 115 /\ w[k].price * 100 < e * 135)
                  => /\ w[k].stop_loss < w[k].price * 100
                     /\ task[i].exit_date # w[k].date
            /\ (task[i].pc = "returned" /\ task[i].result # NoTrade) =>
                  LET r == task[i].result
                      last == w[Len(w)]
                  IN  /\ r.exit_price * 100 >= e * 135
                            => r.profit_or_loss = "Profit"
                      /\ r.profit_or_loss = "Loss" =>
                            /\ last.price = r.exit_price
                            /\ last.price * 100 <= last.stop_loss
                            /\ last.price * 100 < e * 115
C20_Witness ==
    \E i \in Tasks :
        /\ task[i].pc = "returned" /\ task[i].result # NoTrade
        /\ Len(walk[i]) = 2
        /\ walk[i][1].price * 100 >= task[i].entry_price * 125
        /\ walk[i][1].price * 100 < task[i].entry_price * 135
        /\ task[i].result.profit_or_loss = "Loss"

(* C21: a day that sets stop_loss to target2 is the day the trade exits: *)
(* no simulation is still open at the end of a day with stop_loss =      *)
(* target2, and no trade leaves through the stop-loss at the target2     *)
(* level.                                                                 *)
C21_Target2NeverInForce ==
    \A i \in Tasks : Entered(i) =>
        LET e == task[i].entry_price
            w == walk[i]
        IN  /\ \A k \in 1..Len(w) :
                  w[k].stop_loss = e * 125 =>
                      /\ k = Len(w)
                      /\ w[k].price * 100 >= e * 135
                      /\ task[i].exit_date = w[k].date
                      /\ task[i].pc \in {"after_loop", "returned"}
            /\ task[i].pc = "loop" => task[i].stop_loss # e * 125
            /\ \A k \in 2..Len(w) :
                  (w[k].price * 100 <= w[k].stop_loss
                      /\ w[k].price * 100 < e * 135)
                  => /\ w[k].stop_loss # e * 125
                     /\ w[k - 1].stop_loss # e * 125
C21_Witness ==
    \E i \in Tasks :
        /\ task[i].pc = "returned" /\ task[i].result # NoTrade
        /\ Len(walk[i]) = 2
        /\ walk[i][1].stop_loss = task[i].entry_price * 115
        /\ walk[i][2].stop_loss = task[i].entry_price * 125
        /\ task[i].result.exit_date = walk[i][2].date
        /\ task[i].stop_loss = task[i].entry_price * 125

(* C22: with a positive entry price the stop-loss is never below         *)
(* entry_price x 0.70, and once a day has closed at or above target1 the  *)
(* stop-loss is at least entry_price x 1.01 on that day and on every     *)
(* later day of the simulation.                                           *)
C22_StopFloor ==
    \A i \in Tasks : (Entered(i) /\ task[i].entry_price > 0) =>
        LET e == task[i].entry_price
            w == walk[i]
        IN  /\ task[i].stop_loss >= e * 70
            /\ \A k \in 1..Len(w) : w[k].stop_loss >= e * 70
            /\ \A j \in 1..Len(w) :
                  w[j].price * 100 >= e * 115 =>
                      /\ \A k \in j..Len(w) : w[k].stop_loss >= e * 101
                      /\ task[i].stop_loss >= e * 101
C22_Witness ==
    \E i \in Tasks :
        /\ task[i].pc = "loop" /\ task[i].entry_price > 0
        /\ Len(walk[i]) = 2
        /\ walk[i][1].price * 100 >= task[i].entry_price * 115
        /\ walk[i][2].price * 100 < task[i].entry_price * 115
        /\ walk[i][2].stop_loss = task[i].entry_price * 101
        /\ task[i].stop_loss = task[i].entry_price * 101

====
